---------------------------- MODULE Spec2Model ----------------------------
(***************************************************************************)
(* Model of rest_requests/__init__.py: the coroutine request(), its helper *)
(* _request() and the verb dispatch _resolve_method().                     *)
(*                                                                         *)
(* A call is a coroutine.  It runs atomically between its suspension       *)
(* points (the awaits of the two `async with` statements and of            *)
(* response.json() / response.text()), so one action models the code       *)
(* between two awaits.  The network is the environment: it answers a send  *)
(* with a response (status, content type) or with a transport exception,   *)
(* and a body read with the body text or with a transport exception.       *)
(***************************************************************************)
EXTENDS Naturals, Integers, Sequences, FiniteSets, TLC

VARIABLES
    calls,          \* the locals of each invocation of request()/_request()
    sessions,       \* the aiohttp.ClientSession objects created so far
    default_body    \* the one `{}` object bound to request()'s `body` default

vars == <<calls, sessions, default_body>>

---------------------------------------------------------------------------
(* Bounds *)

\* number of invocations of request() that may be in flight together
NumCalls == 2

Calls == 1..NumCalls

\* every invocation creates one session
SessionIds == 1..NumCalls

---------------------------------------------------------------------------
(* Python values *)

\* a Python value: its type and its items (keys and values of a dict in
\* order, the elements of a list, the one literal of a scalar)
Py(type, items) == [type |-> type, items |-> items]

EmptyDict == Py("dict", <<>>)

NoValue == Py("none", <<>>)

\* proxy_url = None
None == "None"

\* a header dict with no entries
NoHeaderEntries == [k \in {} |-> ""]

\* d1 | d2 on Python dicts: the right operand wins on a common key
DictUnion(d1, d2) ==
    [k \in (DOMAIN d1) \cup (DOMAIN d2) |-> IF k \in DOMAIN d2 THEN d2[k] ELSE d1[k]]

\* `x or {}` for an optional header dict: None and the empty dict are falsy
OrEmpty(h) == IF h.none \/ DOMAIN h.dict = {} THEN NoHeaderEntries ELSE h.dict

\* s.startswith(prefix), on strings held as sequences of chunks
StartsWith(s, prefix) ==
    /\ Len(prefix) <= Len(s)
    /\ SubSeq(s, 1, Len(prefix)) = prefix

---------------------------------------------------------------------------
(* RequestMethod *)

\* the members of the enumeration, by name
RequestMethod == {"GET", "HEAD", "POST", "PUT", "DELETE", "OPTIONS", "PATCH"}

\* timeout's default value
DefaultTimeout == 600

---------------------------------------------------------------------------
(* Outcomes of a call *)

NoOutcome == [kind |-> "none", error |-> "", status |-> 0, value |-> NoValue]

Return(v) == [kind |-> "return", error |-> "", status |-> 0, value |-> v]

Raise(e, status) == [kind |-> "raise", error |-> e, status |-> status, value |-> NoValue]

---------------------------------------------------------------------------
(* The pure pieces of _request and request *)

\* headers = (headers or {}) | {"Content-Type": "application/json"}
MergeHeaders_callerWins(headers) ==
    DictUnion([k \in {"Content-Type"} |-> "application/json"], OrEmpty(headers))

MergeHeaders(headers) ==
    DictUnion(OrEmpty(headers), [k \in {"Content-Type"} |-> "application/json"])

\* the bound method session.<verb>; ok = FALSE when no case matched, so that
\* `return request_func` reads an unbound local (UnboundLocalError)
Bound(session, verb) == [ok |-> TRUE, session |-> session, verb |-> verb]

Unbound == [ok |-> FALSE, session |-> 0, verb |-> ""]

_resolve_method_putAsPost(method, session) ==
    CASE method = "GET" -> Bound(session, "get")
      [] method = "HEAD" -> Bound(session, "head")
      [] method = "POST" -> Bound(session, "post")
      [] method = "PUT" -> Bound(session, "post")
      [] method = "DELETE" -> Bound(session, "delete")
      [] method = "OPTIONS" -> Bound(session, "options")
      [] method = "PATCH" -> Bound(session, "patch")
      [] OTHER -> Unbound

_resolve_method_firstSession(method, session) ==
    CASE method = "GET" -> Bound(1, "get")
      [] method = "HEAD" -> Bound(1, "head")
      [] method = "POST" -> Bound(1, "post")
      [] method = "PUT" -> Bound(1, "put")
      [] method = "DELETE" -> Bound(1, "delete")
      [] method = "OPTIONS" -> Bound(1, "options")
      [] method = "PATCH" -> Bound(1, "patch")
      [] OTHER -> Unbound

_resolve_method(method, session) ==
    CASE method = "GET" -> Bound(session, "get")
      [] method = "HEAD" -> Bound(session, "head")
      [] method = "POST" -> Bound(session, "post")
      [] method = "PUT" -> Bound(session, "put")
      [] method = "DELETE" -> Bound(session, "delete")
      [] method = "OPTIONS" -> Bound(session, "options")
      [] method = "PATCH" -> Bound(session, "patch")
      [] OTHER -> Unbound

\* `if dry_run:` - whether _request returns before the send
DryRunReturns_never(dry_run) == FALSE

DryRunReturns(dry_run) == dry_run

\* the if / elif / else over response.content_type: which reader is awaited
Reader_noElse(content_type) ==
    IF content_type = <<"application/json">> THEN "json" ELSE "text"

Reader(content_type) ==
    IF content_type = <<"application/json">> THEN "json"
    ELSE IF StartsWith(content_type, <<"text/plain">>) THEN "text"
    ELSE "unsupported"

\* json.loads on the body text (response.json()): the decoded value, or
\* ok = FALSE for a text that is not JSON (json.JSONDecodeError)
json_loads(text) ==
    CASE text = "{\"a\": 1}" -> [ok |-> TRUE, value |-> Py("dict", <<"a", "1">>)]
      [] text = "[1, 2]" -> [ok |-> TRUE, value |-> Py("list", <<"1", "2">>)]
      [] text = "42" -> [ok |-> TRUE, value |-> Py("int", <<"42">>)]
      [] OTHER -> [ok |-> FALSE, value |-> NoValue]

\* response.text(): the body as a str
text_of(text) == Py("str", <<text>>)

\* response.raise_for_status(): raises ClientResponseError for status >= 400
raise_for_status(status) == status >= 400

\* the body of `async with request_func(...) as response:` once the body
\* text has been read: decode, then check the status, then return
Decode(reader, status, text) ==
    LET decoded == IF reader = "json" THEN json_loads(text)
                   ELSE [ok |-> TRUE, value |-> text_of(text)]
    IN  IF ~decoded.ok THEN Raise("JSONDecodeError", 0)
        ELSE IF raise_for_status(status) THEN Raise("ClientResponseError", status)
        ELSE Return(decoded.value)

\* optional_args: the connector, built by ProxyConnector.from_url only
\* when proxy_url is not None; built counts the ProxyConnector constructions
optional_args_always(proxy_url) ==
    [connector |-> [type |-> "ProxyConnector", url |-> proxy_url], built |-> 1]

optional_args(proxy_url) ==
    IF proxy_url # None
    THEN [connector |-> [type |-> "ProxyConnector", url |-> proxy_url], built |-> 1]
    ELSE [connector |-> [type |-> "TCPConnector", url |-> None], built |-> 0]


\* __aexit__ of `async with aiohttp.ClientSession(...) as session:`: runs on
\* every way out of the block and closes the session
ClientSession_aexit_onReturnOnly(sess, c, outcome) ==
    IF outcome.kind = "return"
    THEN [sess EXCEPT !.state = "closed", !.closedBy = @ \cup {c}]
    ELSE sess

ClientSession_aexit(sess, c, outcome) ==
    [sess EXCEPT !.state = "closed", !.closedBy = @ \cup {c}]

\* __aexit__ of `async with request_func(...) as response:`: releases the
\* response if one was acquired
response_aexit(resp, outcome) ==
    IF resp.state = "open" THEN [resp EXCEPT !.state = "released"] ELSE resp

---------------------------------------------------------------------------
(* State *)

NoResponse == [state |-> "none", status |-> 0, content_type |-> <<>>]

NoRequest == [url |-> "", headers |-> NoHeaderEntries, json |-> NoValue]

\* an invocation that has not started
IdleCall ==
    [pc |-> "idle",
     method |-> "", url |-> "",
     headers |-> [none |-> TRUE, dict |-> NoHeaderEntries],
     body |-> [omitted |-> TRUE, value |-> EmptyDict],
     timeout |-> 0, proxy_url |-> None, dry_run |-> FALSE,
     connectors |-> 0, session |-> 0,
     eff_headers |-> NoHeaderEntries, request_func |-> Unbound,
     sends |-> 0, sent |-> NoRequest,
     response |-> NoResponse, text |-> "", read |-> FALSE,
     outcome |-> NoOutcome]

\* a session that has not been constructed
NoSession ==
    [state |-> "absent",
     connector |-> [type |-> "", url |-> None],
     total |-> None, sock_connect |-> 0, sock_read |-> 0,
     creator |-> 0, sentBy |-> {}, verbs |-> <<>>, closedBy |-> {}]

\* aiohttp.ClientSession(timeout=ClientTimeout(total=None, sock_connect=timeout,
\* sock_read=timeout), **optional_args), constructed by call c
ClientSession(timeout, opt, c) ==
    [state |-> "open",
     connector |-> opt.connector,
     total |-> None, sock_connect |-> timeout, sock_read |-> timeout,
     creator |-> c, sentBy |-> {}, verbs |-> <<>>, closedBy |-> {}]

Init ==
    /\ calls = [c \in Calls |-> IdleCall]
    /\ sessions = [s \in SessionIds |-> NoSession]
    /\ default_body = EmptyDict

\* the body a call passes on: the shared default object when it was omitted
BodyOf(call) == IF call.body.omitted THEN default_body ELSE call.body.value

\* the call leaves both `async with` blocks with the given outcome
Finish(c, call, outcome) ==
    /\ calls' = [calls EXCEPT ![c] =
                    [call EXCEPT !.pc = "done",
                                 !.outcome = outcome,
                                 !.response = response_aexit(@, outcome)]]
    /\ sessions' = [sessions EXCEPT ![call.session] =
                       ClientSession_aexit(@, c, outcome)]

\* request_func(url=url, headers=headers, json=body): one request goes out
\* on the session the bound method belongs to
Send(c, call) ==
    /\ calls' = [calls EXCEPT ![c] =
                    [call EXCEPT !.pc = "sending",
                                 !.sends = @ + 1,
                                 !.sent = [url |-> call.url,
                                           headers |-> call.eff_headers,
                                           json |-> BodyOf(call)]]]
    /\ sessions' = [sessions EXCEPT ![call.request_func.session] =
                       [@ EXCEPT !.sentBy = @ \cup {c},
                                 !.verbs = Append(@, call.request_func.verb)]]

---------------------------------------------------------------------------
(* Actions *)

\* request(): from the call to the entry of `async with ClientSession(...)`
request(c, a) ==
    /\ calls[c].pc = "idle"
    /\ \E s \in SessionIds :
        /\ sessions[s].state = "absent"
        /\ \A t \in SessionIds : sessions[t].state = "absent" => s <= t
        /\ LET opt == optional_args(a.proxy_url)
           IN  /\ calls' = [calls EXCEPT ![c] =
                               [@ EXCEPT !.pc = "entered",
                                         !.method = a.method,
                                         !.url = a.url,
                                         !.headers = a.headers,
                                         !.body = a.body,
                                         !.timeout = a.timeout,
                                         !.proxy_url = a.proxy_url,
                                         !.dry_run = a.dry_run,
                                         !.connectors = @ + opt.built,
                                         !.session = s]]
               /\ sessions' = [sessions EXCEPT ![s] = ClientSession(a.timeout, opt, c)]
    /\ UNCHANGED default_body

\* _request(): headers, verb resolution, the dry-run return, and the send
_request(c) ==
    /\ calls[c].pc = "entered"
    /\ LET rf == _resolve_method(calls[c].method, calls[c].session)
           call == [calls[c] EXCEPT !.eff_headers = MergeHeaders(calls[c].headers),
                                    !.request_func = rf]
       IN  IF ~rf.ok THEN Finish(c, call, Raise("UnboundLocalError", 0))
           ELSE IF DryRunReturns(call.dry_run) THEN Finish(c, call, Return(Py("dict", <<>>)))
           ELSE Send(c, call)
    /\ UNCHANGED default_body

\* the send raises a transport exception (DNS, connection refused, timeout)
SendFails_retry(c) ==
    /\ calls[c].pc = "sending"
    /\ IF calls[c].sends < 2
       THEN Send(c, calls[c])
       ELSE Finish(c, calls[c], Raise("TransportError", 0))
    /\ UNCHANGED default_body

SendFails(c) ==
    /\ calls[c].pc = "sending"
    /\ Finish(c, calls[c], Raise("TransportError", 0))
    /\ UNCHANGED default_body

\* the response arrives: the if / elif / else over its content type
Respond(c, status, content_type) ==
    /\ calls[c].pc = "sending"
    /\ LET call == [calls[c] EXCEPT !.response = [state |-> "open",
                                                  status |-> status,
                                                  content_type |-> content_type]]
       IN  IF Reader(content_type) = "unsupported"
           THEN Finish(c, call, Raise("RuntimeError", 0))
           ELSE /\ calls' = [calls EXCEPT ![c] = [call EXCEPT !.pc = "reading"]]
                /\ UNCHANGED sessions
    /\ UNCHANGED default_body

\* response.json() / response.text() completes: decode, raise_for_status, return
ReadBody(c, text) ==
    /\ calls[c].pc = "reading"
    /\ LET call == [calls[c] EXCEPT !.text = text, !.read = TRUE]
       IN  Finish(c, call,
                  Decode(Reader(call.response.content_type), call.response.status, text))
    /\ UNCHANGED default_body

\* reading the body raises a transport exception
ReadFails(c) ==
    /\ calls[c].pc = "reading"
    /\ Finish(c, calls[c], Raise("TransportError", 0))
    /\ UNCHANGED default_body

---------------------------------------------------------------------------
(* Inputs *)

Url == "http://host/api"

ProxyUrl == "socks5://proxy:1080"

\* caller headers: absent, empty, plain, colliding on Content-Type, and a
\* lower-case content-type (a different dict key)
CallerHeaders ==
    { [none |-> TRUE, dict |-> NoHeaderEntries],
      [none |-> FALSE, dict |-> NoHeaderEntries],
      [none |-> FALSE, dict |-> [k \in {"Accept"} |-> "text/plain"]],
      [none |-> FALSE, dict |-> [k \in {"Content-Type", "Accept"} |->
                                   IF k = "Accept" THEN "*/*" ELSE "text/xml"]],
      [none |-> FALSE, dict |-> [k \in {"content-type"} |-> "text/xml"]] }

\* body: omitted (the default object) or given
CallerBodies ==
    { [omitted |-> TRUE, value |-> EmptyDict],
      [omitted |-> FALSE, value |-> Py("dict", <<"job", "1">>)] }

Statuses == {200, 404, 500}

\* response.content_type values, each a string cut into chunks so that
\* equality and startswith are decided as the code decides them
ContentTypes ==
    { <<"application/json">>, <<"application/json", "l">>,
      <<"text/plain">>, <<"text/plain", "; charset=utf-8">>,
      <<"application/xml">> }

BodyTexts == {"{\"a\": 1}", "[1, 2]", "42", "ok"}

\* the arguments the signature of request() admits
TypedArgs ==
    [method : RequestMethod, url : {Url}, headers : CallerHeaders,
     body : CallerBodies, timeout : {DefaultTimeout},
     proxy_url : {None, ProxyUrl}, dry_run : BOOLEAN]

\* the same, with a method that no case of the match statement names
AnyArgs ==
    [method : RequestMethod \cup {"TRACE"}, url : {Url}, headers : CallerHeaders,
     body : CallerBodies, timeout : {DefaultTimeout},
     proxy_url : {None, ProxyUrl}, dry_run : BOOLEAN]

\* a small set of arguments for calls in flight together
ConcArgs ==
    [method : {"GET", "POST"}, url : {Url},
     headers : {[none |-> TRUE, dict |-> NoHeaderEntries]},
     body : {[omitted |-> TRUE, value |-> EmptyDict]}, timeout : {DefaultTimeout},
     proxy_url : {None}, dry_run : BOOLEAN]

ConcStatuses == {200, 404}

ConcContentTypes == {<<"application/json">>, <<"application/xml">>}

ConcBodyTexts == {"{\"a\": 1}", "ok"}

---------------------------------------------------------------------------
(* Specifications *)

\* one invocation, with every argument the signature admits
Next ==
    \/ \E a \in TypedArgs : request(1, a)
    \/ _request(1)
    \/ SendFails(1)
    \/ \E st \in Statuses, ct \in ContentTypes : Respond(1, st, ct)
    \/ \E t \in BodyTexts : ReadBody(1, t)
    \/ ReadFails(1)

Spec == Init /\ [][Next]_vars

\* one invocation, whatever is passed as method
NextAny ==
    \/ \E a \in AnyArgs : request(1, a)
    \/ _request(1)
    \/ SendFails(1)
    \/ \E st \in Statuses, ct \in ContentTypes : Respond(1, st, ct)
    \/ \E t \in BodyTexts : ReadBody(1, t)
    \/ ReadFails(1)

SpecAny == Init /\ [][NextAny]_vars

\* NumCalls invocations interleaving at their suspension points
NextConc ==
    \E c \in Calls :
        \/ \E a \in ConcArgs : request(c, a)
        \/ _request(c)
        \/ SendFails(c)
        \/ \E st \in ConcStatuses, ct \in ConcContentTypes : Respond(c, st, ct)
        \/ \E t \in ConcBodyTexts : ReadBody(c, t)
        \/ ReadFails(c)

SpecConc == Init /\ [][NextConc]_vars

---------------------------------------------------------------------------
(* Properties *)

\* the calls that have started
Started == {c \in Calls : calls[c].pc # "idle"}

\* the calls that have completed
Done == {c \in Calls : calls[c].pc = "done"}

\* the calls that were answered with a response
Answered == {c \in Calls : calls[c].response.state # "none"}

\* a content type that begins with text/plain
IsTextPlain(ct) == Len(ct) >= 1 /\ ct[1] = "text/plain"

\* a content type that is exactly application/json
IsJson(ct) == ct = <<"application/json">>

\* C1: a call with dry_run true never sends: it issues no request on any
\* session, acquires no response, goes from the entry of the session block
\* straight to completion, and completes by returning an empty mapping.
C1_DryRunNoNetwork ==
    \A c \in Started :
        calls[c].dry_run =>
            /\ calls[c].pc \in {"entered", "done"}
            /\ calls[c].sends = 0
            /\ calls[c].response.state = "none"
            /\ \A s \in SessionIds : c \notin sessions[s].sentBy
            /\ calls[c].pc = "done" =>
                   /\ calls[c].outcome.kind = "return"
                   /\ calls[c].outcome.value = [type |-> "dict", items |-> <<>>]

C1_Witness ==
    \E c \in Done :
        /\ calls[c].dry_run
        /\ calls[c].outcome.kind = "return"
        /\ calls[c].sends = 0

\* C2: a completed non-dry-run call whose response had a failure status
\* (>= 400) and content type application/json, and whose body was read, has
\* raised the status error carrying that status, whatever the body text.
C2_StatusErrorWhateverBody ==
    \A c \in Done \cap Answered :
        ( /\ ~calls[c].dry_run
          /\ calls[c].response.status >= 400
          /\ IsJson(calls[c].response.content_type)
          /\ calls[c].read ) =>
            /\ calls[c].outcome.kind = "raise"
            /\ calls[c].outcome.error = "ClientResponseError"
            /\ calls[c].outcome.status = calls[c].response.status

C4_ReturnedValueByContentType ==
    \A c \in Done :
        (~calls[c].dry_run /\ calls[c].outcome.kind = "return") =>
            /\ calls[c].response.state # "none"
            /\ calls[c].response.status < 400
            /\ \/ /\ IsJson(calls[c].response.content_type)
                  /\ calls[c].outcome.value.type \in {"dict", "list"}
                  /\ json_loads(calls[c].text).ok
                  /\ calls[c].outcome.value = json_loads(calls[c].text).value
               \/ /\ IsTextPlain(calls[c].response.content_type)
                  /\ calls[c].outcome.value = [type |-> "str", items |-> <<calls[c].text>>]

\* what the effective headers must be for the caller's headers
HeadersAsSpecified(caller, eff) ==
    LET given == IF caller.none THEN {} ELSE DOMAIN caller.dict
    IN  /\ DOMAIN eff = given \cup {"Content-Type"}
        /\ eff["Content-Type"] = "application/json"
        /\ \A k \in given \ {"Content-Type"} : eff[k] = caller.dict[k]

\* C5: in every call that has computed its headers, the effective headers
\* are the caller's headers plus Content-Type: application/json, the latter
\* winning on the key Content-Type; and the headers of the request sent are
\* these effective headers.
C5_EffectiveHeaders ==
    \A c \in Calls :
        calls[c].pc \in {"sending", "reading", "done"} =>
            /\ HeadersAsSpecified(calls[c].headers, calls[c].eff_headers)
            /\ calls[c].sends > 0 =>
                   HeadersAsSpecified(calls[c].headers, calls[c].sent.headers)

C5_Witness ==
    \E c \in Calls :
        /\ calls[c].sends = 1
        /\ ~calls[c].headers.none
        /\ "Content-Type" \in DOMAIN calls[c].headers.dict
        /\ calls[c].headers.dict["Content-Type"] = "text/xml"
        /\ calls[c].sent.headers["Content-Type"] = "application/json"

\* C6: every started call holds a session it opened, and in every state
\* where the call has completed, on whatever exit path, that session is
\* closed and the response, if one was acquired, is released.
C6_SessionReleased ==
    /\ \A c \in Started :
           /\ calls[c].session \in SessionIds
           /\ sessions[calls[c].session].state # "absent"
    /\ \A c \in Done :
           /\ sessions[calls[c].session].state = "closed"
           /\ calls[c].response.state \in {"none", "released"}

C6_Witness ==
    \E c \in Done \cap Answered :
        /\ calls[c].outcome.error = "TransportError"
        /\ calls[c].response.state = "released"
        /\ sessions[calls[c].session].state = "closed"

\* the sender of the same verb, for each member of RequestMethod
SenderFor ==
    [m \in RequestMethod |->
        IF m = "GET" THEN "get"
        ELSE IF m = "HEAD" THEN "head"
        ELSE IF m = "POST" THEN "post"
        ELSE IF m = "PUT" THEN "put"
        ELSE IF m = "DELETE" THEN "delete"
        ELSE IF m = "OPTIONS" THEN "options"
        ELSE "patch"]

\* C7: for each member of RequestMethod the resolved sender is the session's
\* sender of the same verb, and a request that goes out goes out through
\* exactly that sender; for a method that no case names, the call raises an
\* internal error (UnboundLocalError) and sends nothing.
C7_VerbDispatch ==
    \A c \in Calls :
        calls[c].pc \in {"sending", "reading", "done"} =>
            IF calls[c].method \in RequestMethod
            THEN /\ calls[c].request_func.ok
                 /\ calls[c].request_func.verb = SenderFor[calls[c].method]
                 /\ calls[c].sends > 0 =>
                        sessions[calls[c].session].verbs = <<SenderFor[calls[c].method]>>
            ELSE /\ calls[c].pc = "done"
                 /\ calls[c].outcome.kind = "raise"
                 /\ calls[c].outcome.error = "UnboundLocalError"
                 /\ calls[c].sends = 0
                 /\ sessions[calls[c].session].verbs = <<>>

C7_Witness ==
    \E c \in Done :
        /\ calls[c].method \notin RequestMethod
        /\ calls[c].outcome.error = "UnboundLocalError"
        /\ calls[c].sends = 0

\* the outcome a completed call must have, from its own arguments and its
\* own response alone
OwnOutcome(call) ==
    IF call.dry_run THEN [kind |-> "return", error |-> ""]
    ELSE IF call.response.state = "none" THEN [kind |-> "raise", error |-> "TransportError"]
    ELSE IF ~IsJson(call.response.content_type) /\ ~IsTextPlain(call.response.content_type)
        THEN [kind |-> "raise", error |-> "RuntimeError"]
    ELSE IF ~call.read THEN [kind |-> "raise", error |-> "TransportError"]
    ELSE IF IsJson(call.response.content_type) /\ call.text \notin {"{\"a\": 1}", "[1, 2]", "42"}
        THEN [kind |-> "raise", error |-> "JSONDecodeError"]
    ELSE IF call.response.status >= 400 THEN [kind |-> "raise", error |-> "ClientResponseError"]
    ELSE [kind |-> "return", error |-> ""]

\* C8: with several calls in flight, every call has a session of its own
\* that it created, its sender is bound to that session, a session is sent
\* on and closed only by the call that created it, the shared default body
\* stays the empty mapping (and is what a call that omitted the body sends),
\* and a completed call's outcome is the one its own arguments and its own
\* response determine.
C8_NoSharedState ==
    /\ default_body = [type |-> "dict", items |-> <<>>]
    /\ \A s \in SessionIds :
           /\ sessions[s].sentBy \subseteq {sessions[s].creator}
           /\ sessions[s].closedBy \subseteq {sessions[s].creator}
           /\ sessions[s].state = "absent" => sessions[s].sentBy = {}
    /\ \A c \in Started :
           /\ sessions[calls[c].session].creator = c
           /\ calls[c].request_func.ok => calls[c].request_func.session = calls[c].session
           /\ \A d \in Started : d # c => calls[d].session # calls[c].session
           /\ (calls[c].sends > 0 /\ calls[c].body.omitted) =>
                  calls[c].sent.json = [type |-> "dict", items |-> <<>>]
    /\ \A c \in Done :
           /\ calls[c].outcome.kind = OwnOutcome(calls[c]).kind
           /\ calls[c].outcome.error = OwnOutcome(calls[c]).error

C8_Witness ==
    \E c \in Calls, d \in Calls :
        /\ c # d
        /\ calls[c].pc = "reading"
        /\ calls[d].pc = "sending"
        /\ calls[c].body.omitted /\ calls[d].body.omitted
        /\ calls[c].session # calls[d].session
        /\ sessions[calls[c].session].sentBy = {c}
        /\ sessions[calls[d].session].sentBy = {d}

\* C9: a started call has constructed exactly one proxy connector, and its
\* session is built on it, when proxy_url was supplied; it has constructed
\* none, and its session has no proxy connector, when proxy_url was omitted.
C9_ProxyConnector ==
    /\ \A c \in Calls \ Started : calls[c].connectors = 0
    /\ \A c \in Started :
           IF calls[c].proxy_url # None
           THEN /\ calls[c].connectors = 1
                /\ sessions[calls[c].session].connector =
                       [type |-> "ProxyConnector", url |-> calls[c].proxy_url]
           ELSE /\ calls[c].connectors = 0
                /\ sessions[calls[c].session].connector.type # "ProxyConnector"

C9_Witness ==
    \E c \in Done :
        /\ calls[c].proxy_url = ProxyUrl
        /\ calls[c].connectors = 1
        /\ sessions[calls[c].session].connector.type = "ProxyConnector"

\* C10: a non-dry-run call never issues more than one send; from the send
\* on it has issued exactly one, on its session, whatever the outcome; and
\* a completed call has either returned a value or raised an error.
C10_OneRoundTrip ==
    \A c \in Started :
        ~calls[c].dry_run =>
            /\ calls[c].sends <= 1
            /\ Len(sessions[calls[c].session].verbs) = calls[c].sends
            /\ calls[c].pc \in {"sending", "reading", "done"} => calls[c].sends = 1
            /\ calls[c].pc = "done" => calls[c].outcome.kind \in {"return", "raise"}

C10_Witness ==
    \E c \in Done :
        /\ ~calls[c].dry_run
        /\ calls[c].outcome.error = "TransportError"
        /\ calls[c].response.state = "none"
        /\ calls[c].sends = 1

=============================================================================
